---------------------------- MODULE Spec2Model ----------------------------
(***************************************************************************)
(* A model of theniceduck/mcp-rag-server.                                  *)
(*                                                                         *)
(*   Spec   the MCP tool server (src/mcp-rag-server/server.py, call_tool)  *)
(*          and the HTTP /ask endpoint (src/GianPDF/model deployment/      *)
(*          server.py) over one uploads directory and one Chroma store.    *)
(*   LSpec  the serverless launcher (src/mcp-serverless/launcher.py): the  *)
(*          main thread, the two forwarding threads, the Docker daemon     *)
(*          and the parent's standard streams.                             *)
(*                                                                         *)
(* Text (session ids, file paths, questions, collection names) is a        *)
(* sequence of one-character strings, so that lower-casing, trimming and   *)
(* suffix tests are computed rather than assumed.                          *)
(***************************************************************************)
EXTENDS Naturals, Integers, Sequences, FiniteSets, TLC

VARIABLES
    files,      \* uploads directory: the session ids s with a file <s>.pdf
    colls,      \* Chroma store: collection name -> [origin session id -> chunks]
    call,       \* the last request received
    resp,       \* the response to it
    pc,         \* launcher: the position of each of its three threads
    lst,        \* launcher: the ServerlessLauncher object's fields
    dock,       \* launcher: the Docker daemon's view of the container
    io,         \* launcher: standard input/output and the attached streams
    sig,        \* launcher: signals delivered and SystemExit in flight
    hist,       \* launcher: what was asked of the daemon and where signals fell
    think       \* post-processing: a text, _strip_think of it, and of that

svars == <<files, colls, call, resp>>
lvars == <<pc, lst, dock, io, sig, hist>>
tvars == <<think>>
vars  == <<files, colls, call, resp, pc, lst, dock, io, sig, hist, think>>

----------------------------------------------------------------------------
(* Bounds of the model *)

\* the most chunks one PDF is split into
MaxChunks == 1
\* the most chunks a collection holds (uploads beyond it are not explored)
MaxColl == 2
\* the most pages one PDF has
MaxPages == 1
\* the most lines the parent writes to the launcher's standard input
MaxLines == 2
\* the most chunks the container writes to its output stream
MaxOut == 2
\* the most signals (SIGINT, SIGTERM) delivered to the launcher
MaxSignals == 1
\* the most fragments a text given to _strip_think is made of
MaxFrags == 5

----------------------------------------------------------------------------
(* Text *)

LowerChar(c) ==
    CASE c = "A" -> "a"
      [] c = "D" -> "d"
      [] c = "F" -> "f"
      [] c = "P" -> "p"
      [] c = "X" -> "x"
      [] c = "T" -> "t"
      [] c = "H" -> "h"
      [] c = "I" -> "i"
      [] c = "N" -> "n"
      [] c = "K" -> "k"
      [] c = "O" -> "o"
      [] c = "U" -> "u"
      [] c = "G" -> "g"
      [] OTHER -> c

\* str.lower()
Lower(s) == [i \in 1..Len(s) |-> LowerChar(s[i])]

\* str.endswith(suffix)
EndsWith(s, suffix) ==
    /\ Len(s) >= Len(suffix)
    /\ SubSeq(s, Len(s) - Len(suffix) + 1, Len(s)) = suffix

IsSpace(c) == c \in {" ", "\t", "\n"}

RECURSIVE LStrip(_)
LStrip(s) == IF s # <<>> /\ IsSpace(Head(s)) THEN LStrip(Tail(s)) ELSE s

RECURSIVE RStrip(_)
RStrip(s) ==
    IF s # <<>> /\ IsSpace(s[Len(s)]) THEN RStrip(SubSeq(s, 1, Len(s) - 1)) ELSE s

\* str.strip()
Strip(s) == RStrip(LStrip(s))

DotPdf == <<".", "p", "d", "f">>

----------------------------------------------------------------------------
(* The values the requests are drawn from *)

\* uuid.uuid4().hex[:12]: twelve lower-case hexadecimal characters
HexLen == 12
Hex1 == [i \in 1..HexLen |-> IF i = HexLen THEN "1" ELSE "0"]
GenIds == {Hex1}

\* caller-supplied session ids; two of them differ in letter case only
CustomIds == {<<"a">>, <<"A">>}
AllIds == CustomIds \cup GenIds

\* a session_id argument: <<>> is a missing, null or empty one
SessionArgs == {<<>>} \cup CustomIds \cup {Hex1}

\* a file_path argument: <<>> is a missing, null or empty one
PdfUpper == <<"X", ".", "P", "D", "F">>
TxtFile == <<"x", ".", "t", "x", "t">>
Missing == <<"n", ".", "p", "d", "f">>
PathArgs == {<<>>, PdfUpper, TxtFile, Missing}
\* the paths that exist on the caller's disk
ExistingPaths == {PdfUpper, TxtFile}

\* a question argument: <<>> is a missing or empty one
QuestionArgs == {<<>>, <<" ">>, <<" ", "q", " ">>}

\* AskRequest.question is a required string
HttpQuestionArgs == {<<" ">>, <<" ", "q", " ">>}

\* TOP_K_DEFAULT
TOP_K_DEFAULT == 4
TopKArgs == {1, TOP_K_DEFAULT}

ToolNames ==
    {"upload_document", "query_document", "list_sessions", "delete_session",
     "get_session_info"}

\* chunk_count = None
None == -1

----------------------------------------------------------------------------
(* The Chroma store *)

\* f"pdf_{session_id}".lower()
_session_collection(session_id) == Lower(<<"p", "d", "f", "_">> \o session_id)

\* Chroma's default collection name, used when none is given
LangchainDefault == <<"l", "a", "n", "g", "c", "h", "a", "i", "n">>

NoChunks == [o \in AllIds |-> 0]

\* the session ids in a fixed order, to sum over them
IdSeq == <<<<"a">>, <<"A">>, Hex1>>

RECURSIVE SumTo(_, _)
SumTo(f, i) == IF i = 0 THEN 0 ELSE f[IdSeq[i]] + SumTo(f, i - 1)

\* the number of chunks of a count per origin
SumOver(f, S) == SumTo(f, Len(IdSeq))

\* collection.count()
CollCount(cs, name) == SumOver(cs[name], AllIds)

\* Chroma rejects a collection name that does not end in a letter or digit
ValidName(name) == Len(name) >= 3 /\ name[Len(name)] # "_"

\* Chroma(collection_name=...): get_or_create_collection
ChromaOpen(cs, name) == IF name \in DOMAIN cs THEN cs ELSE cs @@ (name :> NoChunks)

\* _build_vectordb(collection_name): the store after the call
_build_vectordb(cs, collection_name) == ChromaOpen(cs, collection_name)

\* Chroma.from_documents(documents=chunks, collection_name=...): the chunks are
\* added to the collection of that name, created when absent
FromDocuments(cs, name, origin, n) ==
    LET c == ChromaOpen(cs, name)
    IN  [c EXCEPT ![name] = [@ EXCEPT ![origin] = @ + n]]

\* client.delete_collection(name), for a collection that exists
DeleteCollection(cs, name) == [m \in (DOMAIN cs) \ {name} |-> cs[m]]

\* the sets of chunks a retriever with k = top_k may return: min(k, count) chunks
\* of the collection, as a count per origin
Retrievals(cs, name, k) ==
    LET total == CollCount(cs, name)
        want == IF k < total THEN k ELSE total
    IN  {r \in [AllIds -> 0..want] :
            /\ \A o \in AllIds : r[o] <= cs[name][o]
            /\ SumOver(r, AllIds) = want}

\* the session ids of the "source" metadata of the retrieved chunks
Origins(r) == {o \in AllIds : r[o] > 0}

----------------------------------------------------------------------------
(* Requests and responses *)

NoCall == [tool |-> "", file_path |-> <<>>, session_id |-> <<>>, question |-> <<>>]

\* kind: "none" before the first call; "error" an {"error": ...} payload;
\* "ok" any other payload; "raised" an exception that left the handler
NoResp ==
    [kind |-> "none", msg |-> "", sid |-> <<>>, n |-> 0, pages |-> 0,
     success |-> FALSE, deleted |-> {}, sessions |-> {}, count |-> 0,
     answered |-> FALSE, sources |-> {}, status |-> 0]

Err(msg, sid) == [NoResp EXCEPT !.kind = "error", !.msg = msg, !.sid = sid]
Raised == [NoResp EXCEPT !.kind = "raised"]
Ok == [NoResp EXCEPT !.kind = "ok"]

SInit ==
    /\ files = {}
    /\ colls = << >>
    /\ call = NoCall
    /\ resp = NoResp


----------------------------------------------------------------------------
(* The MCP tool handlers.  Each operator is the whole handler: from the     *)
(* uploads directory fs, the store cs, the arguments and the outcome o of   *)
(* the external calls it makes, the directory, store and response after it. *)

Result(fs, cs, r) == [files |-> fs, colls |-> cs, resp |-> r]

UploadOutcomes ==
    {"ok", "copy_raises", "load_raises", "split_raises", "index_raises",
     "index_raises_created"}

\* the checks of upload_document that precede the copy
UploadValidation(file_path) ==
    IF file_path = <<>> THEN "file_path is required"
    ELSE IF file_path \notin ExistingPaths THEN "File not found"
    ELSE IF ~EndsWith(Lower(file_path), DotPdf) THEN "Only PDF files are supported"
    ELSE ""

\* a variant that always generates the session id
UploadSessionId_generates(custom, gen) == gen

\* session_id = custom_session_id if custom_session_id else uuid.uuid4().hex[:12]
UploadSessionId(custom, gen) == IF custom # <<>> THEN custom ELSE gen

\* call_tool, name == "upload_document"; pages and chunks are what the loader
\* and the splitter make of the file
upload_document_tool(fs, cs, file_path, custom, gen, o, pages, chunks) ==
    LET session_id == UploadSessionId(custom, gen)
        saved == fs \cup {session_id}
        collection_name == _session_collection(session_id)
    IN  IF UploadValidation(file_path) # ""
          THEN Result(fs, cs, Err(UploadValidation(file_path), <<>>))
        ELSE IF o = "copy_raises" THEN Result(fs, cs, Raised)
        ELSE IF o = "load_raises" THEN Result(saved, cs, Raised)
        ELSE IF pages = 0
          THEN Result(saved, cs, Err("No content found in the PDF", <<>>))
        ELSE IF o = "split_raises" THEN Result(saved, cs, Raised)
        ELSE IF chunks = 0
          THEN Result(saved, cs, Err("Could not split the PDF into chunks", <<>>))
        ELSE IF o = "index_raises" THEN Result(saved, cs, Raised)
        ELSE IF o = "index_raises_created"
          THEN Result(saved, ChromaOpen(cs, collection_name), Raised)
        ELSE Result(saved,
                    FromDocuments(cs, collection_name, session_id, chunks),
                    [Ok EXCEPT !.success = TRUE, !.sid = session_id,
                               !.n = chunks, !.pages = pages])

QueryOutcomes == {"ok", "open_raises", "retrieve_raises", "llm_raises"}

\* a variant that opens the collection before it validates the request
query_document_opens_first(fs, cs, session_id, question, o, docs, include_sources) ==
    LET opened == _build_vectordb(cs, _session_collection(session_id))
    IN  IF session_id = <<>> THEN Result(fs, opened, Err("session_id is required", <<>>))
        ELSE IF Strip(question) = <<>>
          THEN Result(fs, opened, Err("question is required", <<>>))
        ELSE Result(fs, opened, [Ok EXCEPT !.answered = TRUE])

\* call_tool, name == "query_document"; docs is what the retriever returns
query_document_tool(fs, cs, session_id, question, o, docs, include_sources) ==
    LET collection_name == _session_collection(session_id)
        opened == _build_vectordb(cs, collection_name)
    IN  IF session_id = <<>> THEN Result(fs, cs, Err("session_id is required", <<>>))
        ELSE IF Strip(question) = <<>>
          THEN Result(fs, cs, Err("question is required", <<>>))
        ELSE IF o = "open_raises" \/ ~ValidName(collection_name)
          THEN Result(fs, cs, Err("Session not found", session_id))
        ELSE IF o = "retrieve_raises" THEN Result(fs, opened, Raised)
        ELSE IF Origins(docs) = {}
          THEN Result(fs, opened, [Ok EXCEPT !.msg = "I couldn't find content"])
        ELSE IF o = "llm_raises" THEN Result(fs, opened, Raised)
        ELSE Result(fs, opened,
                    [Ok EXCEPT !.answered = TRUE,
                               !.sources = IF include_sources THEN Origins(docs)
                                           ELSE {}])

ListOutcomes == {"ok", "stat_raises"}

\* call_tool, name == "list_sessions"
list_sessions_tool(fs, cs, o) ==
    IF o = "stat_raises" /\ fs # {} THEN Result(fs, cs, Raised)
    ELSE Result(fs, cs, [Ok EXCEPT !.sessions = fs, !.count = Cardinality(fs)])

DeleteOutcomes == {"ok", "unlink_raises", "client_raises"}

\* a variant that leaves the file in place
DeletePdf_keeps(fs, session_id) == fs

\* delete_session: the "Delete PDF file" step
DeletePdf(fs, session_id) == fs \ {session_id}

\* delete_session: the components the PDF step reports
DeletedPdf(fs, session_id) == IF session_id \in fs THEN {"pdf_file"} ELSE {}

\* delete_session: the store after the "Delete Chroma collection" step; the
\* client is taken from a Chroma with the default collection name
DeleteIndex(cs, collection_name, o) ==
    IF o = "client_raises" THEN cs
    ELSE LET c == ChromaOpen(cs, LangchainDefault)
         IN  IF collection_name \in DOMAIN c THEN DeleteCollection(c, collection_name)
             ELSE c

\* a variant that reports the index deleted whenever the client could be built
DeletedIndex_always(cs, collection_name, o) ==
    IF o = "client_raises" THEN {} ELSE {"vector_index"}

\* delete_session: the components the collection step reports
DeletedIndex(cs, collection_name, o) ==
    IF o = "client_raises" THEN {}
    ELSE IF collection_name \in DOMAIN ChromaOpen(cs, LangchainDefault)
      THEN {"vector_index"}
    ELSE {}

\* call_tool, name == "delete_session"
delete_session_tool(fs, cs, session_id, o) ==
    LET collection_name == _session_collection(session_id)
        deleted == DeletedPdf(fs, session_id) \cup DeletedIndex(cs, collection_name, o)
    IN  IF session_id = <<>> THEN Result(fs, cs, Err("session_id is required", <<>>))
        ELSE IF o = "unlink_raises" /\ session_id \in fs THEN Result(fs, cs, Raised)
        ELSE Result(DeletePdf(fs, session_id),
                    DeleteIndex(cs, collection_name, o),
                    IF deleted # {}
                      THEN [Ok EXCEPT !.success = TRUE, !.sid = session_id,
                                      !.deleted = deleted]
                    ELSE [Err("Session not found", session_id) EXCEPT !.success = FALSE])

InfoOutcomes == {"ok", "open_raises", "count_raises", "stat_raises"}

\* call_tool, name == "get_session_info"
get_session_info_tool(fs, cs, session_id, o) ==
    LET collection_name == _session_collection(session_id)
        opened == _build_vectordb(cs, collection_name)
    IN  IF session_id = <<>> THEN Result(fs, cs, Err("session_id is required", <<>>))
        ELSE IF session_id \notin fs
          THEN Result(fs, cs, Err("Session not found", session_id))
        ELSE IF o = "open_raises" \/ ~ValidName(collection_name)
          THEN Result(fs, cs, [Ok EXCEPT !.sid = session_id, !.n = None])
        ELSE IF o = "count_raises"
          THEN Result(fs, opened, [Ok EXCEPT !.sid = session_id, !.n = None])
        ELSE IF o = "stat_raises" THEN Result(fs, opened, Raised)
        ELSE Result(fs, opened,
                    [Ok EXCEPT !.sid = session_id,
                               !.n = CollCount(opened, collection_name)])

\* call_tool, any other name
unknown_tool(fs, cs) == Result(fs, cs, Err("Unknown tool", <<>>))

\* POST /ask of the HTTP server: status 400, 404, 200, or 500 for an
\* exception that leaves the handler
ask(fs, cs, session_id, question, o, docs) ==
    LET collection_name == _session_collection(session_id)
        opened == _build_vectordb(cs, collection_name)
    IN  IF Strip(question) = <<>>
          THEN Result(fs, cs, [Err("Question is empty.", <<>>) EXCEPT !.status = 400])
        ELSE IF o = "open_raises" \/ ~ValidName(collection_name)
          THEN Result(fs, cs,
                      [Err("Session not found", session_id) EXCEPT !.status = 404])
        ELSE IF o = "retrieve_raises"
          THEN Result(fs, opened, [Raised EXCEPT !.status = 500])
        ELSE IF Origins(docs) = {}
          THEN Result(fs, opened,
                      [Ok EXCEPT !.msg = "I couldn't find content", !.status = 200])
        ELSE IF o = "llm_raises"
          THEN Result(fs, opened, [Raised EXCEPT !.status = 500])
        ELSE Result(fs, opened,
                    [Ok EXCEPT !.answered = TRUE, !.sources = Origins(docs),
                               !.status = 200])

----------------------------------------------------------------------------
(* The actions of the server: one per tool call or request *)

\* the handler is evaluated once and its result assigned
Apply(result) ==
    \E r \in {result} :
        /\ files' = r.files
        /\ colls' = r.colls
        /\ resp' = r.resp

\* uuid4 does not repeat an id in use
Fresh(g) == g \notin files /\ _session_collection(g) \notin DOMAIN colls

\* the collection of the upload stays within MaxColl chunks
Fits(session_id, chunks) ==
    LET name == _session_collection(session_id)
    IN  (IF name \in DOMAIN colls THEN CollCount(colls, name) ELSE 0) + chunks <= MaxColl

\* The outcomes of the external calls are drawn from what the handler reaches
\* with the arguments it was given: a call it never makes has no outcome.
UploadOutcomesFor(file_path) ==
    IF UploadValidation(file_path) # "" THEN {"ok"} ELSE UploadOutcomes

\* the session_id argument is read only after validation
CustomFor(file_path) ==
    IF UploadValidation(file_path) # "" THEN {<<>>} ELSE {<<>>} \cup CustomIds

\* len(docs) of loader.load(), when the load is reached
PagesFor(o) ==
    IF o \in {"copy_raises", "load_raises"} THEN {0}
    ELSE IF o = "ok" THEN 0..MaxPages
    ELSE {1}

\* len(chunks) of splitter.split_documents(docs), when the split is reached
ChunksFor(o, pages) ==
    IF pages = 0 \/ o = "split_raises" THEN {0}
    ELSE IF o = "ok" THEN 0..MaxChunks
    ELSE {1}

UploadDocument ==
    \E file_path \in PathArgs, gen \in GenIds :
      \E custom \in CustomFor(file_path), o \in UploadOutcomesFor(file_path) :
        \E pages \in PagesFor(o) :
          \E chunks \in ChunksFor(o, pages) :
            /\ UploadValidation(file_path) = "" /\ custom = <<>> => Fresh(gen)
            /\ Fits(UploadSessionId(custom, gen), chunks)
            /\ call' = [NoCall EXCEPT !.tool = "upload_document",
                                      !.file_path = file_path, !.session_id = custom]
            /\ Apply(upload_document_tool(files, colls, file_path, custom, gen, o,
                                          pages, chunks))
            /\ UNCHANGED <<lvars, tvars>>

\* query_document and POST /ask: whether the request passes validation
Answerable(session_id, question) == session_id # <<>> /\ Strip(question) # <<>>

QueryOutcomesFor(valid) == IF valid THEN QueryOutcomes ELSE {"ok"}

\* top_k is read only when the retriever is built
TopKFor(valid, o) == IF valid /\ o = "ok" THEN TopKArgs ELSE {TOP_K_DEFAULT}

\* include_sources is read only when the answer is built
IncludeFor(valid, o, k) ==
    IF valid /\ o = "ok" /\ k = TOP_K_DEFAULT THEN BOOLEAN ELSE {TRUE}

\* what the retriever may return for the call, when the collection can be opened
RetrievalsFor(session_id, k) ==
    LET name == _session_collection(session_id)
    IN  Retrievals(_build_vectordb(colls, name), name, k)

QueryDocument ==
    \E session_id \in SessionArgs, question \in QuestionArgs :
      \E o \in QueryOutcomesFor(Answerable(session_id, question)) :
        \E k \in TopKFor(Answerable(session_id, question), o) :
         \E include_sources \in IncludeFor(Answerable(session_id, question), o, k) :
          \E docs \in RetrievalsFor(session_id, k) :
            /\ call' = [NoCall EXCEPT !.tool = "query_document",
                                      !.session_id = session_id,
                                      !.question = question]
            /\ Apply(query_document_tool(files, colls, session_id, question, o,
                                         docs, include_sources))
            /\ UNCHANGED <<lvars, tvars>>

ListSessions ==
    \E o \in ListOutcomes :
        /\ call' = [NoCall EXCEPT !.tool = "list_sessions"]
        /\ Apply(list_sessions_tool(files, colls, o))
        /\ UNCHANGED <<lvars, tvars>>

DeleteSession ==
    \E session_id \in SessionArgs :
      \E o \in IF session_id = <<>> THEN {"ok"} ELSE DeleteOutcomes :
        /\ call' = [NoCall EXCEPT !.tool = "delete_session", !.session_id = session_id]
        /\ Apply(delete_session_tool(files, colls, session_id, o))
        /\ UNCHANGED <<lvars, tvars>>

GetSessionInfo ==
    \E session_id \in SessionArgs :
      \E o \in IF session_id \in files THEN InfoOutcomes ELSE {"ok"} :
        /\ call' = [NoCall EXCEPT !.tool = "get_session_info", !.session_id = session_id]
        /\ Apply(get_session_info_tool(files, colls, session_id, o))
        /\ UNCHANGED <<lvars, tvars>>

UnknownTool ==
    /\ call' = [NoCall EXCEPT !.tool = "no_such_tool"]
    /\ Apply(unknown_tool(files, colls))
    /\ UNCHANGED <<lvars, tvars>>

\* AskRequest.session_id is a required string, which may be empty
HttpAsk ==
    \E session_id \in SessionArgs, question \in HttpQuestionArgs :
      \E o \in QueryOutcomesFor(Strip(question) # <<>>) :
        \E k \in {TOP_K_DEFAULT} :
          \E docs \in RetrievalsFor(session_id, k) :
            /\ call' = [NoCall EXCEPT !.tool = "POST /ask",
                                      !.session_id = session_id,
                                      !.question = question]
            /\ Apply(ask(files, colls, session_id, question, o, docs))
            /\ UNCHANGED <<lvars, tvars>>

SNext ==
    \/ UploadDocument
    \/ QueryDocument
    \/ ListSessions
    \/ DeleteSession
    \/ GetSessionInfo
    \/ UnknownTool
    \/ HttpAsk


----------------------------------------------------------------------------
(* The serverless launcher *)

Threads == {"main", "stdin", "stdout"}

\* the ServerlessLauncher object after __init__, the daemon with or without
\* a container of an earlier run, the parent's streams, no signal yet
LInit(old) ==
    /\ pc = [main |-> "build", stdin |-> "idle", stdout |-> "idle"]
    /\ lst = [container |-> FALSE, container_stdin |-> FALSE,
              container_stdout |-> FALSE, running |-> FALSE]
    /\ dock = [old |-> old, cont |-> "none"]
    /\ io = [inq |-> <<>>, written |-> 0, closed |-> FALSE, line |-> 0,
             eof |-> FALSE, sent |-> <<>>, pending |-> <<>>, emitted |-> 0,
             chunk |-> 0, out |-> <<>>, stale |-> FALSE, attached |-> FALSE,
             err |-> 0]
    /\ sig = 0
    /\ hist = [created |-> FALSE, stored |-> FALSE, stops |-> 0, removes |-> 0,
               forgotten |-> FALSE, unstored |-> FALSE, cut |-> FALSE,
               wfail |-> FALSE]

Goto(t, to) == pc' = [pc EXCEPT ![t] = to]

\* an exception that reaches run()'s handlers, and sys.exit(0) raised by
\* signal_handler in the try block of run(): both go on to the finally block
ToFinally == Goto("main", "finally")

\* run(): ensure_directories() and build_image()
Build ==
    /\ pc["main"] = "build"
    /\ \/ Goto("main", "start")
       \/ ToFinally
    /\ UNCHANGED <<tvars, svars, lst, dock, io, sig, hist>>

\* start_container(): the "already running" check
StartCheck ==
    /\ pc["main"] = "start"
    /\ IF lst.container THEN Goto("main", "spawn_in") ELSE Goto("main", "get_old")
    /\ UNCHANGED <<tvars, svars, lst, dock, io, sig, hist>>

\* start_container(): remove a container of the same name, if there is one
RemoveOld ==
    /\ pc["main"] = "get_old"
    /\ \/ /\ ~dock.old
          /\ Goto("main", "run_req")
          /\ UNCHANGED dock
       \/ /\ dock.old
          /\ dock' = [dock EXCEPT !.old = FALSE]
          /\ Goto("main", "run_req")
       \/ /\ dock.old
          /\ ToFinally
          /\ UNCHANGED dock
    /\ UNCHANGED <<tvars, svars, lst, io, sig, hist>>

\* start_container(): client.containers.run(...) reaches the daemon, which
\* creates and starts the container, or creates it and fails to start it, or
\* fails to create it
RunRequest ==
    /\ pc["main"] = "run_req"
    /\ \/ /\ ~dock.old
          /\ dock' = [dock EXCEPT !.cont = "running"]
          /\ hist' = [hist EXCEPT !.created = TRUE]
          /\ Goto("main", "run_ret")
       \/ /\ ~dock.old
          /\ dock' = [dock EXCEPT !.cont = "created"]
          /\ hist' = [hist EXCEPT !.created = TRUE]
          /\ ToFinally
       \/ /\ ToFinally
          /\ UNCHANGED <<dock, hist>>
    /\ UNCHANGED <<tvars, svars, lst, io, sig>>

\* start_container(): self.container = <the value run() returned>
RunReturn ==
    /\ pc["main"] = "run_ret"
    /\ lst' = [lst EXCEPT !.container = TRUE]
    /\ hist' = [hist EXCEPT !.stored = TRUE]
    /\ Goto("main", "sleep")
    /\ UNCHANGED <<tvars, svars, dock, io, sig>>

\* a variant that sets self.running before the streams are attached
Sleep_sets_running ==
    /\ pc["main"] = "sleep"
    /\ lst' = [lst EXCEPT !.running = TRUE]
    /\ Goto("main", "attach_in")
    /\ UNCHANGED <<tvars, svars, dock, io, sig, hist>>

\* start_container(): time.sleep(2)
Sleep ==
    /\ pc["main"] = "sleep"
    /\ Goto("main", "attach_in")
    /\ UNCHANGED <<tvars, svars, lst, dock, io, sig, hist>>

\* start_container(): self.container_stdin = attach_socket(...)
AttachIn ==
    /\ pc["main"] = "attach_in"
    /\ \/ /\ lst' = [lst EXCEPT !.container_stdin = TRUE]
          /\ Goto("main", "attach_out")
       \/ /\ ToFinally
          /\ UNCHANGED lst
    /\ UNCHANGED <<tvars, svars, dock, io, sig, hist>>

\* start_container(): self.container_stdout = attach(...)
AttachOut ==
    /\ pc["main"] = "attach_out"
    /\ \/ /\ lst' = [lst EXCEPT !.container_stdout = TRUE]
          /\ io' = [io EXCEPT !.attached = TRUE]
          /\ Goto("main", "set_running")
       \/ /\ ToFinally
          /\ UNCHANGED <<lst, io>>
    /\ UNCHANGED <<tvars, svars, dock, sig, hist>>

\* start_container(): self.running = True
SetRunning ==
    /\ pc["main"] = "set_running"
    /\ lst' = [lst EXCEPT !.running = TRUE]
    /\ Goto("main", "spawn_in")
    /\ UNCHANGED <<tvars, svars, dock, io, sig, hist>>

\* run(): stdin_thread.start()
SpawnIn ==
    /\ pc["main"] = "spawn_in"
    /\ pc' = [pc EXCEPT !["main"] = "spawn_out", !["stdin"] = "loop"]
    /\ UNCHANGED <<tvars, svars, lst, dock, io, sig, hist>>

\* run(): stdout_thread.start()
SpawnOut ==
    /\ pc["main"] = "spawn_out"
    /\ pc' = [pc EXCEPT !["main"] = "join_in", !["stdout"] = "iter"]
    /\ UNCHANGED <<tvars, svars, lst, dock, io, sig, hist>>

\* run(): stdin_thread.join()
JoinIn ==
    /\ pc["main"] = "join_in"
    /\ pc["stdin"] = "done"
    /\ Goto("main", "join_out")
    /\ UNCHANGED <<tvars, svars, lst, dock, io, sig, hist>>

\* run(): stdout_thread.join()
JoinOut ==
    /\ pc["main"] = "join_out"
    /\ pc["stdout"] = "done"
    /\ Goto("main", "finally")
    /\ UNCHANGED <<tvars, svars, lst, dock, io, sig, hist>>

\* a variant whose finally block does not call stop_container()
Finally_skips ==
    /\ pc["main"] = "finally"
    /\ Goto("main", "close")
    /\ UNCHANGED <<tvars, svars, lst, dock, io, sig, hist>>

\* run(): the finally block calls stop_container()
Finally ==
    /\ pc["main"] = "finally"
    /\ Goto("main", "chk")
    /\ UNCHANGED <<tvars, svars, lst, dock, io, sig, hist>>

\* where stop_container() returns to
AfterStop(t) == IF t = "main" THEN "close" ELSE "done"

Stoppers == {"main", "stdin"}

\* stop_container(): if not self.container: return
StopCheck(t) ==
    /\ pc[t] = "chk"
    /\ IF lst.container THEN Goto(t, "unrun") ELSE Goto(t, AfterStop(t))
    /\ UNCHANGED <<tvars, svars, lst, dock, io, sig, hist>>

\* stop_container(): self.running = False
StopUnrun(t) ==
    /\ pc[t] = "unrun"
    /\ lst' = [lst EXCEPT !.running = FALSE]
    /\ Goto(t, "stop")
    /\ UNCHANGED <<tvars, svars, dock, io, sig, hist>>

\* stop_container(): self.container.stop(timeout=5); with no handle left the
\* attribute access fails, and any failure goes to the except clause
StopCall(t) ==
    /\ pc[t] = "stop"
    /\ \/ /\ lst.container
          /\ dock.cont \in {"running", "exited"}
          /\ dock' = [dock EXCEPT !.cont = "exited"]
          /\ hist' = [hist EXCEPT !.stops = @ + 1]
          /\ Goto(t, "remove")
       \/ /\ lst.container
          /\ hist' = [hist EXCEPT !.stops = @ + 1]
          /\ Goto(t, "clear")
          /\ UNCHANGED dock
       \/ /\ ~lst.container
          /\ Goto(t, "clear")
          /\ UNCHANGED <<dock, hist>>
    /\ UNCHANGED <<tvars, svars, lst, io, sig>>

\* stop_container(): self.container.remove()
RemoveCall(t) ==
    /\ pc[t] = "remove"
    /\ \/ /\ lst.container
          /\ dock.cont = "exited"
          /\ dock' = [dock EXCEPT !.cont = "removed"]
          /\ hist' = [hist EXCEPT !.removes = @ + 1]
          /\ Goto(t, "clear")
       \/ /\ lst.container
          /\ hist' = [hist EXCEPT !.removes = @ + 1]
          /\ Goto(t, "clear")
          /\ UNCHANGED dock
       \/ /\ ~lst.container
          /\ Goto(t, "clear")
          /\ UNCHANGED <<dock, hist>>
    /\ UNCHANGED <<tvars, svars, lst, io, sig>>

\* stop_container(): self.container = None and the two streams likewise
StopClear(t) ==
    /\ pc[t] = "clear"
    /\ lst' = [lst EXCEPT !.container = FALSE, !.container_stdin = FALSE,
                          !.container_stdout = FALSE]
    /\ hist' = [hist EXCEPT !.forgotten = @ \/ lst.container]
    /\ Goto(t, AfterStop(t))
    /\ UNCHANGED <<tvars, svars, dock, io, sig>>

\* run(): the end of the finally block (the last log line, log_file.close())
Close ==
    /\ pc["main"] = "close"
    /\ Goto("main", "done")
    /\ UNCHANGED <<tvars, svars, lst, dock, io, sig, hist>>

\* proxy_stdin_to_container(): while self.running
InLoop ==
    /\ pc["stdin"] = "loop"
    /\ IF lst.running THEN Goto("stdin", "read") ELSE Goto("stdin", "chk")
    /\ UNCHANGED <<tvars, svars, lst, dock, io, sig, hist>>

\* proxy_stdin_to_container(): line = sys.stdin.buffer.readline(), which
\* blocks until the parent has written a line or closed the stream
InRead ==
    /\ pc["stdin"] = "read"
    /\ \/ /\ io.inq # <<>>
          /\ io' = [io EXCEPT !.line = Head(io.inq), !.inq = Tail(io.inq)]
          /\ Goto("stdin", "send")
       \/ /\ io.inq = <<>>
          /\ io.closed
          /\ io' = [io EXCEPT !.eof = TRUE]
          /\ Goto("stdin", "chk")
    /\ UNCHANGED <<tvars, svars, lst, dock, sig, hist>>

\* a variant that sends each line twice
InSend_twice ==
    /\ pc["stdin"] = "send"
    /\ io' = [io EXCEPT !.sent = Append(Append(@, io.line), io.line), !.line = 0]
    /\ Goto("stdin", "loop")
    /\ UNCHANGED <<tvars, svars, lst, dock, sig, hist>>

\* proxy_stdin_to_container(): if self.container_stdin: sendall(line)
InSend ==
    /\ pc["stdin"] = "send"
    /\ \/ /\ lst.container_stdin
          /\ io' = [io EXCEPT !.sent = Append(@, io.line), !.line = 0,
                              !.stale = @ \/ io.eof]
          /\ Goto("stdin", "loop")
       \/ /\ lst.container_stdin
          /\ io' = [io EXCEPT !.line = 0]
          /\ Goto("stdin", "chk")
       \/ /\ ~lst.container_stdin
          /\ io' = [io EXCEPT !.line = 0]
          /\ Goto("stdin", "loop")
    /\ UNCHANGED <<tvars, svars, lst, dock, sig, hist>>

\* the container's output stream has ended
StreamEnded == dock.cont \in {"exited", "removed"} /\ io.pending = <<>>

\* proxy_container_to_stdout(): for chunk in self.container_stdout
OutIter ==
    /\ pc["stdout"] = "iter"
    /\ IF lst.container_stdout THEN Goto("stdout", "next") ELSE Goto("stdout", "done")
    /\ UNCHANGED <<tvars, svars, lst, dock, io, sig, hist>>

\* proxy_container_to_stdout(): the next chunk of the stream, which blocks
\* until the container writes one or its stream ends
OutNext ==
    /\ pc["stdout"] = "next"
    /\ \/ /\ io.pending # <<>>
          /\ io' = [io EXCEPT !.chunk = Head(io.pending), !.pending = Tail(io.pending)]
          /\ Goto("stdout", "got")
       \/ /\ StreamEnded
          /\ Goto("stdout", "done")
          /\ UNCHANGED io
    /\ UNCHANGED <<tvars, svars, lst, dock, sig, hist>>

\* proxy_container_to_stdout(): if not self.running: break
OutCheck ==
    /\ pc["stdout"] = "got"
    /\ IF lst.running THEN Goto("stdout", "write") ELSE Goto("stdout", "done")
    /\ UNCHANGED <<tvars, svars, lst, dock, io, sig, hist>>

\* proxy_container_to_stdout(): sys.stdout.buffer.write(chunk) and flush(),
\* which write the chunk or raise (the parent no longer reads)
OutWrite ==
    /\ pc["stdout"] = "write"
    /\ \/ /\ io' = [io EXCEPT !.out = Append(@, io.chunk), !.chunk = 0]
          /\ Goto("stdout", "next")
          /\ UNCHANGED hist
       \/ /\ io' = [io EXCEPT !.chunk = 0]
          /\ hist' = [hist EXCEPT !.wfail = TRUE]
          /\ Goto("stdout", "done")
    /\ UNCHANGED <<tvars, svars, lst, dock, sig>>

\* the interpreter ends once the main thread is done and no thread that was
\* started (daemon=False) is still running
ProcessExit ==
    /\ pc["main"] = "done"
    /\ pc["stdin"] \in {"idle", "done"}
    /\ pc["stdout"] \in {"idle", "done"}
    /\ Goto("main", "exited")
    /\ UNCHANGED <<tvars, svars, lst, dock, io, sig, hist>>

\* signal_handler: sys.exit(0) raises SystemExit in the main thread wherever
\* it is in run().  except Exception does not catch it: from the try block
\* the finally block runs; from inside the finally block it leaves run().
InFinally == {"finally", "chk", "unrun", "stop", "remove", "clear", "close"}

\* a variant that prints the shutdown notice (written 0) to standard output
Signal_prints_to_stdout ==
    /\ sig < MaxSignals
    /\ pc["main"] \notin {"done", "exited"}
    /\ sig' = sig + 1
    /\ io' = [io EXCEPT !.out = Append(@, 0)]
    /\ IF pc["main"] \in InFinally THEN Goto("main", "done") ELSE ToFinally
    /\ hist' = [hist EXCEPT !.unstored = @ \/ pc["main"] = "run_ret",
                            !.cut = @ \/ pc["main"] \in InFinally]
    /\ UNCHANGED <<tvars, svars, lst, dock>>

\* signal_handler: the notice is printed to standard error (io.err counts
\* the notices there), then sys.exit(0)
Signal ==
    /\ sig < MaxSignals
    /\ pc["main"] \notin {"done", "exited"}
    /\ sig' = sig + 1
    /\ io' = [io EXCEPT !.err = @ + 1]
    /\ IF pc["main"] \in InFinally THEN Goto("main", "done") ELSE ToFinally
    /\ hist' = [hist EXCEPT !.unstored = @ \/ pc["main"] = "run_ret",
                            !.cut = @ \/ pc["main"] \in InFinally]
    /\ UNCHANGED <<tvars, svars, lst, dock>>

\* the parent writes a line to the launcher's standard input
ParentWrite ==
    /\ ~io.closed
    /\ io.written < MaxLines
    /\ pc["main"] # "exited"
    /\ io' = [io EXCEPT !.written = @ + 1, !.inq = Append(@, io.written + 1)]
    /\ UNCHANGED <<tvars, svars, pc, lst, dock, sig, hist>>

\* the parent closes the launcher's standard input
ParentClose ==
    /\ ~io.closed
    /\ pc["main"] # "exited"
    /\ io' = [io EXCEPT !.closed = TRUE]
    /\ UNCHANGED <<tvars, svars, pc, lst, dock, sig, hist>>

\* the container writes a chunk to its output, which the attached stream carries
ContainerEmit ==
    /\ dock.cont = "running"
    /\ io.attached
    /\ io.emitted < MaxOut
    /\ io' = [io EXCEPT !.emitted = @ + 1, !.pending = Append(@, io.emitted + 1)]
    /\ UNCHANGED <<tvars, svars, pc, lst, dock, sig, hist>>

\* the container's process ends by itself
ContainerExit ==
    /\ dock.cont = "running"
    /\ dock' = [dock EXCEPT !.cont = "exited"]
    /\ UNCHANGED <<tvars, svars, pc, lst, io, sig, hist>>

MainStep ==
    \/ Build
    \/ StartCheck
    \/ RemoveOld
    \/ RunRequest
    \/ RunReturn
    \/ Sleep
    \/ AttachIn
    \/ AttachOut
    \/ SetRunning
    \/ SpawnIn
    \/ SpawnOut
    \/ JoinIn
    \/ JoinOut
    \/ Finally
    \/ Close
    \/ ProcessExit

StopStep(t) ==
    \/ StopCheck(t)
    \/ StopUnrun(t)
    \/ StopCall(t)
    \/ RemoveCall(t)
    \/ StopClear(t)

StdinStep ==
    \/ InLoop
    \/ InRead
    \/ InSend
    \/ StopStep("stdin")

StdoutStep ==
    \/ OutIter
    \/ OutNext
    \/ OutCheck
    \/ OutWrite

\* the steps the launcher takes by itself
LauncherStep ==
    \/ MainStep
    \/ StopStep("main")
    \/ StdinStep
    \/ StdoutStep

Environment ==
    \/ Signal
    \/ ParentWrite
    \/ ParentClose
    \/ ContainerEmit
    \/ ContainerExit

LNext == LauncherStep \/ Environment

----------------------------------------------------------------------------
(* The answer post-processing: _strip_think *)

\* the pattern pat, with IGNORECASE, matches s at position i
MatchAt(s, i, pat) ==
    /\ i >= 1
    /\ i + Len(pat) - 1 <= Len(s)
    /\ \A j \in 1..Len(pat) : LowerChar(s[i + j - 1]) = pat[j]

ThinkOpen == <<"<", "t", "h", "i", "n", "k", ">">>
ThinkClose == <<"<", "/", "t", "h", "i", "n", "k", ">">>

\* the first position from i on where pat matches, 0 when there is none
RECURSIVE FindFrom(_, _, _)
FindFrom(s, i, pat) ==
    IF i > Len(s) THEN 0
    ELSE IF MatchAt(s, i, pat) THEN i
    ELSE FindFrom(s, i + 1, pat)

\* re.sub(r"<think>.*?</think>", "", text, flags=DOTALL | IGNORECASE) from
\* position i on: one pass, left to right, each match the shortest one
RECURSIVE SubThink(_, _)
SubThink(s, i) ==
    IF i > Len(s) THEN <<>>
    ELSE LET close == IF MatchAt(s, i, ThinkOpen)
                        THEN FindFrom(s, i + Len(ThinkOpen), ThinkClose)
                      ELSE 0
         IN  IF close # 0 THEN SubThink(s, close + Len(ThinkClose))
             ELSE <<s[i]>> \o SubThink(s, i + 1)

\* (thought|reasoning|deliberate|chain[- ]?of[- ]?thought)
Labels ==
    {<<"t", "h", "o", "u", "g", "h", "t">>,
     <<"r", "e", "a", "s", "o", "n", "i", "n", "g">>,
     <<"d", "e", "l", "i", "b", "e", "r", "a", "t", "e">>,
     <<"c", "h", "a", "i", "n", "o", "f", "t", "h", "o", "u", "g", "h", "t">>,
     <<"c", "h", "a", "i", "n", "o", "f", "-", "t", "h", "o", "u", "g", "h", "t">>,
     <<"c", "h", "a", "i", "n", "o", "f", " ", "t", "h", "o", "u", "g", "h", "t">>,
     <<"c", "h", "a", "i", "n", "-", "o", "f", "t", "h", "o", "u", "g", "h", "t">>,
     <<"c", "h", "a", "i", "n", "-", "o", "f", "-", "t", "h", "o", "u", "g", "h", "t">>,
     <<"c", "h", "a", "i", "n", "-", "o", "f", " ", "t", "h", "o", "u", "g", "h", "t">>,
     <<"c", "h", "a", "i", "n", " ", "o", "f", "t", "h", "o", "u", "g", "h", "t">>,
     <<"c", "h", "a", "i", "n", " ", "o", "f", "-", "t", "h", "o", "u", "g", "h", "t">>,
     <<"c", "h", "a", "i", "n", " ", "o", "f", " ", "t", "h", "o", "u", "g", "h", "t">>}

\* the first position from i on that holds no white space
RECURSIVE SkipSpace(_, _)
SkipSpace(s, i) ==
    IF i <= Len(s) /\ IsSpace(s[i]) THEN SkipSpace(s, i + 1) ELSE i

\* the position after the last character of the line that holds position i
RECURSIVE LineEnd(_, _)
LineEnd(s, i) == IF i > Len(s) \/ s[i] = "\n" THEN i ELSE LineEnd(s, i + 1)

\* where a match of ^\s*(label)\s*:.*$ that starts at i ends (the position
\* after it), 0 when there is no match at i
LabelMatchEnd(s, i) ==
    LET p == SkipSpace(s, i)
        hits == {l \in Labels : MatchAt(s, p, l)}
    IN  IF ~(i = 1 \/ s[i - 1] = "\n") \/ hits = {} THEN 0
        ELSE LET l == CHOOSE h \in hits : \A g \in hits : Len(g) <= Len(h)
                 c == SkipSpace(s, p + Len(l))
             IN  IF c <= Len(s) /\ s[c] = ":" THEN LineEnd(s, c + 1) ELSE 0

\* re.sub(r"(?im)^\s*(...)\s*:.*$", "", text) from position i on
RECURSIVE SubLabels(_, _)
SubLabels(s, i) ==
    IF i > Len(s) THEN <<>>
    ELSE IF LabelMatchEnd(s, i) # 0 THEN SubLabels(s, LabelMatchEnd(s, i))
    ELSE <<s[i]>> \o SubLabels(s, i + 1)

\* text.splitlines() from position i on
RECURSIVE SplitLines(_, _)
SplitLines(s, i) ==
    IF i > Len(s) THEN <<>>
    ELSE <<SubSeq(s, i, LineEnd(s, i) - 1)>> \o SplitLines(s, LineEnd(s, i) + 1)

NotBlank(ln) == Strip(ln) # <<>>

\* "\n".join(lines)
RECURSIVE JoinLines(_)
JoinLines(lines) ==
    IF lines = <<>> THEN <<>>
    ELSE IF Len(lines) = 1 THEN lines[1]
    ELSE lines[1] \o <<"\n">> \o JoinLines(Tail(lines))

\* _strip_think(text)
_strip_think(text) ==
    IF text = <<>> THEN text
    ELSE LET a == SubThink(text, 1)
             b == SubLabels(a, 1)
             lines == SelectSeq(SplitLines(b, 1), NotBlank)
         IN  Strip(JoinLines(lines))

\* the pieces the texts given to _strip_think are made of
Fragments ==
    {<<"<", "t", "h", "i", "n", "k", ">">>,
     <<"<", "/", "t", "h", "i", "n", "k", ">">>,
     <<"<", "t", "h", "i">>,
     <<"n", "k", ">">>,
     <<"<", "T", "H", "I", "N", "K", ">">>,
     <<"x">>,
     <<"\n">>,
     <<"T", "h", "o", "u", "g", "h", "t", ":", " ", "x">>}

\* the texts made of at most n fragments
RECURSIVE TextsOf(_)
TextsOf(n) ==
    IF n = 0 THEN {<<>>}
    ELSE LET shorter == TextsOf(n - 1)
         IN  shorter \cup {t \o f : t \in shorter, f \in Fragments}

NoThink == [stage |-> "none", text |-> <<>>, out |-> <<>>, again |-> <<>>]

\* an answer of the model, not yet post-processed
TInit ==
    \E text \in TextsOf(MaxFrags) :
        think = [NoThink EXCEPT !.stage = "raw", !.text = text]

\* answer = _strip_think(raw)
StripThink ==
    /\ think.stage = "raw"
    /\ think' = [think EXCEPT !.stage = "once", !.out = _strip_think(think.text)]
    /\ UNCHANGED <<svars, lvars>>

\* _strip_think applied to the answer it returned
StripAgain ==
    /\ think.stage = "once"
    /\ think' = [think EXCEPT !.stage = "twice", !.again = _strip_think(think.out)]
    /\ UNCHANGED <<svars, lvars>>

TNext == StripThink \/ StripAgain

----------------------------------------------------------------------------
(* The specifications *)

Init == SInit /\ LInit(FALSE) /\ think = NoThink

\* the tool server and the HTTP endpoint
Spec == Init /\ [][SNext]_vars

LaunchInit == SInit /\ think = NoThink /\ \E old \in BOOLEAN : LInit(old)

\* the launcher: a thread that can take a step eventually takes one; the
\* parent, the container and signals are under no obligation
ThinkInit == SInit /\ LInit(FALSE) /\ TInit

\* the answer post-processing, applied to a text and to its own result
TSpec == ThinkInit /\ [][TNext]_vars

LSpec ==
    /\ LaunchInit
    /\ [][LNext]_vars
    /\ WF_vars(MainStep)
    /\ WF_vars(StopStep("main"))
    /\ WF_vars(StdinStep)
    /\ WF_vars(StdoutStep)

----------------------------------------------------------------------------
(* The claims *)

\* C1: when upload_document succeeds with session_id s and chunks_indexed = n,
\* a get_session_info(s) made next reports chunks_indexed = n, for every
\* session id: generated or supplied, uploaded before or not, differing from
\* another in letter case or not.  (A get_session_info that could not read the
\* count reports null; that case is left aside here.)
C1_InfoReportsUploadedCount ==
    [][(/\ call.tool = "upload_document"
        /\ resp.kind = "ok"
        /\ call'.tool = "get_session_info"
        /\ call'.session_id = resp.sid
        /\ resp'.kind = "ok"
        /\ resp'.n # None)
       => resp'.n = resp.n]_vars

\* the session of a request has neither a file nor a collection
Nonexistent(session_id) ==
    /\ session_id \notin files
    /\ _session_collection(session_id) \notin DOMAIN colls

\* C2: query_document and POST /ask with a non-empty question and the id of a
\* session that does not exist (never uploaded, or deleted) return a not-found
\* error, never an answer payload.
C2_QueryOfNonexistentIsNotFound ==
    [][(/\ call'.tool \in {"query_document", "POST /ask"}
        /\ call'.session_id # <<>>
        /\ Strip(call'.question) # <<>>
        /\ Nonexistent(call'.session_id))
       => resp'.kind # "ok"]_vars

\* C3: for every session id s, a delete_session(s) that reported success true
\* or success false, followed at once by get_session_info(s), makes the latter
\* return the error "Session not found: s".
C3_InfoAfterDeleteIsNotFound ==
    [][(/\ call.tool = "delete_session"
        /\ call.session_id # <<>>
        /\ resp.kind \in {"ok", "error"}
        /\ call'.tool = "get_session_info"
        /\ call'.session_id = call.session_id)
       => (/\ resp'.kind = "error"
           /\ resp'.msg = "Session not found"
           /\ resp'.sid = call.session_id)]_vars

\* C3 witness: a delete_session that removed the file of an uploaded session
\* has returned, so that the get_session_info of the claim comes next
C3_Witness ==
    /\ call.tool = "delete_session"
    /\ resp.success
    /\ resp.deleted = {"pdf_file", "vector_index"}
    /\ call.session_id \notin files

\* the launcher has started its container and both forwarding threads
Started == pc["stdin"] # "idle" /\ pc["stdout"] # "idle"

\* C4: once the container and both threads are started, closing standard input
\* leads to the launcher process ending, whatever the stop and remove calls
\* do: so after the close the launcher is never left, short of its exit, with
\* none of its threads able to take a step.
C4_EofLeadsToExit ==
    (io.closed /\ Started) => (pc["main"] = "exited" \/ ENABLED LauncherStep)

C6_RemoveBeforeForget == hist.forgotten => hist.removes >= 1

\* C7: two distinct session ids, each with its own file in the uploads
\* directory, have distinct collections, so that the collection of the one
\* holds no chunk indexed for the other.
C7_DistinctCollections ==
    \A s \in files, t \in files :
        (s # t /\ _session_collection(s) \in DOMAIN colls) =>
            colls[_session_collection(s)][t] = 0

\* C8: a delete_session(s) that returns lists "pdf_file" exactly when the call
\* removed <s>.pdf and "vector_index" exactly when it removed the collection of
\* s; success is true iff a component was removed, and it is false, with
\* "Session not found", iff neither was.
C8_DeletedComponentsAreExact ==
    [][(/\ call'.tool = "delete_session"
        /\ call'.session_id # <<>>
        /\ resp'.kind # "raised")
       => LET s == call'.session_id
              name == _session_collection(s)
              removedFile == s \in files /\ s \notin files'
              removedIndex == name \in DOMAIN colls /\ name \notin DOMAIN colls'
          IN  /\ ("pdf_file" \in resp'.deleted) <=> removedFile
              /\ ("vector_index" \in resp'.deleted) <=> removedIndex
              /\ resp'.success <=> (removedFile \/ removedIndex)
              /\ resp'.success <=> resp'.kind = "ok"
              /\ ~resp'.success <=>
                     (resp'.kind = "error" /\ resp'.msg = "Session not found")]_vars

\* C8 witness: a partial outcome, the file removed and no collection to remove
C8_Witness ==
    /\ call.tool = "delete_session"
    /\ resp.success
    /\ resp.deleted = {"pdf_file"}

\* C9: every MCP tool call ends by returning a payload: a failure of an
\* external call is caught inside call_tool and does not leave it.
C9_NoExceptionLeavesCallTool == call.tool \in ToolNames => resp.kind # "raised"

\* the requests that C10 names: a required field missing, a file that does not
\* exist or is no PDF, an unknown tool
FailsValidation(c) ==
    \/ /\ c.tool = "upload_document"
       /\ \/ c.file_path = <<>>
          \/ c.file_path \notin ExistingPaths
          \/ ~EndsWith(Lower(c.file_path), DotPdf)
    \/ /\ c.tool = "query_document"
       /\ (c.session_id = <<>> \/ Strip(c.question) = <<>>)
    \/ /\ c.tool \in {"delete_session", "get_session_info"}
       /\ c.session_id = <<>>
    \/ c.tool \notin ToolNames \cup {"POST /ask"}

\* C10: a tool call that fails validation returns an error payload and leaves
\* the uploads directory and the collections, names and contents, unchanged.
C10_ValidationPrecedesEffects ==
    [][FailsValidation(call') =>
          (resp'.kind = "error" /\ files' = files /\ colls' = colls)]_vars

\* C10 witness: a query for an existing id whose question is blank after
\* trimming was refused, with a file and a collection in place
C10_Witness ==
    /\ call.tool = "query_document"
    /\ call.session_id # <<>>
    /\ call.question # <<>>
    /\ resp.kind = "error"
    /\ resp.msg = "question is required"
    /\ call.session_id \in files
    /\ _session_collection(call.session_id) \in DOMAIN colls

\* C11: delete_session(s) leaves the file and the collection of every other
\* session t (a session with its file in the uploads directory) unchanged, and
\* no other operation removes the file or the collection of a session.
C11_OnlyOwnDeletionDestroys ==
    [][\A t \in files :
          (call'.tool = "delete_session" /\ call'.session_id = t)
          \/ /\ t \in files'
             /\ _session_collection(t) \in DOMAIN colls =>
                    /\ _session_collection(t) \in DOMAIN colls'
                    /\ call'.tool = "delete_session" =>
                           colls'[_session_collection(t)] = colls[_session_collection(t)]]_vars

\* the chunks the container has emitted, in emission order
Emitted == [i \in 1..io.emitted |-> i]

\* C12: every chunk the container emits after the launcher attached is
\* eventually written to standard output, in order and unmodified; so, in an
\* execution without a signal, with no failing write and with the container
\* stopped and removed as asked, once the launcher process has ended (and can
\* write no more) every emitted chunk was written.
C12_EmittedIsWritten ==
    (/\ pc["main"] = "exited"
     /\ sig = 0
     /\ ~hist.wfail
     /\ dock.cont = "removed") => io.out = Emitted

\* the stdin-forwarding thread is blocked in readline() on a standard input
\* that is still open and has no line to give
BlockedOnStdin == pc["stdin"] = "read" /\ io.inq = <<>> /\ ~io.closed

\* C13: the forwarding threads never keep the process alive: once the main
\* thread has finished its shutdown after a signal, the process can end, even
\* with the stdin-forwarding thread blocked on an open standard input.
C13_ThreadsDoNotKeepProcessAlive ==
    (pc["main"] = "done" /\ sig >= 1 /\ BlockedOnStdin) => ENABLED ProcessExit

HexDigits ==
    {"0", "1", "2", "3", "4", "5", "6", "7", "8", "9", "a", "b", "c", "d", "e", "f"}

\* C14: when upload_document returns a success payload with session_id s, the
\* file <s>.pdf is in the uploads directory and the collection named "pdf_" + s
\* lower-cased exists and holds, for s, the chunks this upload indexed on top
\* of those it held; s is the caller's session_id when one was given and
\* twelve hexadecimal characters otherwise.
C14_UploadLeavesBothArtifacts ==
    [][(call'.tool = "upload_document" /\ resp'.kind = "ok")
       => LET s == resp'.sid
              name == Lower(<<"p", "d", "f", "_">> \o s)
              before == IF name \in DOMAIN colls THEN colls[name][s] ELSE 0
          IN  /\ s \in files'
              /\ name \in DOMAIN colls'
              /\ resp'.n >= 1
              /\ colls'[name][s] = before + resp'.n
              /\ call'.session_id # <<>> => s = call'.session_id
              /\ call'.session_id = <<>> =>
                     /\ Len(s) = HexLen
                     /\ \A i \in 1..Len(s) : s[i] \in HexDigits]_vars

\* C14 witness: an upload with the caller's id "A" has succeeded: A.pdf is in
\* place and the chunks are in pdf_a
C14_Witness ==
    /\ call.tool = "upload_document"
    /\ call.session_id = <<"A">>
    /\ resp.kind = "ok"
    /\ resp.sid = <<"A">>
    /\ <<"A">> \in files
    /\ <<"p", "d", "f", "_", "a">> \in DOMAIN colls
    /\ colls[<<"p", "d", "f", "_", "a">>][<<"A">>] >= 1

\* the lines readline() has returned so far, in the order they were read
LinesRead == [i \in 1..(io.written - Len(io.inq)) |-> i]

\* C15: the lines sent to the container's socket are a prefix of the lines
\* read from standard input, and no line was sent after the thread saw EOF.
C15_SentIsPrefixOfRead ==
    /\ Len(io.sent) <= Len(LinesRead)
    /\ io.sent = SubSeq(LinesRead, 1, Len(io.sent))
    /\ ~io.stale

\* C15 witness: two lines were read and sent, and the thread has seen EOF
C15_Witness ==
    /\ io.sent = <<1, 2>>
    /\ io.eof
    /\ pc["stdin"] = "done"

\* C16: list_sessions returns one entry per file of the uploads directory, with
\* count the number of entries, and the ids listed are those of the uploads
\* that succeeded and whose file no later delete_session removed.  The
\* directory starts empty, so the latter says that every call changes the
\* directory as it changes that set: a successful upload adds its id, a
\* delete_session removes at most its own, and no other call changes it.
C16_ListedAreLiveUploads ==
    [][/\ (call'.tool = "list_sessions" /\ resp'.kind = "ok") =>
              /\ resp'.sessions = files'
              /\ resp'.count = Cardinality(resp'.sessions)
       /\ IF call'.tool = "upload_document" /\ resp'.kind = "ok"
            THEN files' = files \cup {resp'.sid}
          ELSE IF call'.tool = "delete_session"
            THEN files' \subseteq files /\ files \ files' \subseteq {call'.session_id}
          ELSE files' = files]_vars

\* a substring of s begins with "<think>" and ends with "</think>", in any
\* letter case
HasThinkBlock(s) ==
    \E i \in 1..Len(s) :
        /\ MatchAt(s, i, ThinkOpen)
        /\ FindFrom(s, i + Len(ThinkOpen), ThinkClose) # 0

\* C17: the output of _strip_think holds no substring from "<think>" to
\* "</think>", and _strip_think applied to its output returns it unchanged.
C17_StripThinkIsComplete ==
    /\ think.stage \in {"once", "twice"} => ~HasThinkBlock(think.out)
    /\ think.stage = "twice" => think.again = think.out

\* the daemon has a container that this launcher created
ContainerExists == dock.cont \in {"created", "running", "exited"}

\* C18: the launcher runs at most one container: a container of an earlier run
\* is gone before the new one is created, so the daemon never has two of that
\* name, and running is true only with the container created, its handle
\* stored and both streams attached.  (run() calls start_container once, with
\* no container held, so its "already running" return has no case here.)
C18_AtMostOneContainer ==
    /\ ~(dock.old /\ ContainerExists)
    /\ hist.created => ~dock.old
    /\ lst.running =>
           /\ hist.created
           /\ hist.stored
           /\ io.attached
           /\ lst.container
           /\ lst.container_stdin
           /\ lst.container_stdout

\* C18 witness: the launcher is forwarding, with its one container running
C18_Witness ==
    /\ lst.running
    /\ dock.cont = "running"
    /\ ~dock.old
    /\ pc["main"] = "join_in"
    /\ io.sent # <<>>

\* C19: under every interleaving of the main thread and the stdin-forwarding
\* thread, stop() is invoked at most once on the container the launcher
\* started.
C19_StopAtMostOnce == hist.stops <= 1

\* C20: an upload_document that returns an error payload, or that fails with
\* an exception, leaves the files of the uploads directory and the set of
\* collections as they were before the call.
C20_FailedUploadLeavesNoTrace ==
    [][(call'.tool = "upload_document" /\ resp'.kind \in {"error", "raised"})
       => (files' = files /\ DOMAIN colls' = DOMAIN colls)]_vars

\* the launcher has ended without a signal and without having started its
\* forwarding threads: the build or start_container raised
EndedOnFailedStart ==
    /\ pc["main"] = "exited"
    /\ sig = 0
    /\ pc["stdin"] = "idle"
    /\ pc["stdout"] = "idle"

\* C21: when start_container raises, the forwarding threads are not started;
\* if the container had been created, a stop of it is requested before the
\* launcher ends, and if it had not, no stop is attempted.
C21_FailedStartIsCleanedUp ==
    EndedOnFailedStart =>
        /\ hist.created => hist.stops >= 1
        /\ ~hist.created => hist.stops = 0

\* the chunks the output thread has taken from the container's stream
ChunksRead == [i \in 1..(io.emitted - Len(io.pending)) |-> i]

\* the output thread has seen running = false with a chunk in hand, or has
\* ended
OutputStopped ==
    \/ pc["stdout"] = "done"
    \/ pc["stdout"] = "got" /\ ~lst.running

\* C22: what was written to standard output is a prefix of the chunks read
\* from the container's stream, the shutdown notices went to standard error,
\* and nothing is written to standard output once the output thread has seen
\* running = false.
C22_StdoutCarriesOnlyChunks ==
    /\ [](/\ Len(io.out) <= Len(ChunksRead)
          /\ io.out = SubSeq(ChunksRead, 1, Len(io.out))
          /\ io.err = sig)
    /\ [][OutputStopped => io'.out = io.out]_vars

\* C22 witness: a chunk was written, a later one was read and dropped after
\* a signal had made the main thread stop the container
C22_Witness ==
    /\ io.out = <<1>>
    /\ Len(ChunksRead) = 2
    /\ io.chunk = 2
    /\ pc["stdout"] = "done"
    /\ sig >= 1
    /\ io.err >= 1

=============================================================================
